---- MODULE Spec2Model ----
(***************************************************************************)
(* Release gate analysis (generate_gate_analysis.py) as a state machine.   *)
(*                                                                         *)
(* The script is one sequential batch run: connect to the results          *)
(* database and to Jira, run the aggregation queries, count the sub test   *)
(* executions, evaluate the five release gates and write the report.       *)
(*                                                                         *)
(* Numbers.  Every percentage the database returns is ROUND(.., 2), so a   *)
(* percentage is modelled as an integer number of hundredths of a percent  *)
(* (90.00 is 9000).  NaN stands for the SQL NULL of an undefined ratio,    *)
(* which pandas delivers as float NaN among the numbers of a column and as *)
(* None in the only row of a frame; the Py* operators give it Python's     *)
(* comparison semantics.                                                   *)
(***************************************************************************)
EXTENDS Integers, Sequences, FiniteSets, TLC

(***************************************************************************)
(* Bounds of the exploration.                                              *)
(***************************************************************************)
MaxPlatformTypeRows == 2
MaxPlatformRows == 2
MaxBugs == 1
MaxExecutions == 21
FewExecutions == 1
MaxInputLen == 4
MaxDay == 2
MaxHistories == 2
MaxWeeks == 1
MaxIssues == 2

(***************************************************************************)
(* Program constants.                                                      *)
(***************************************************************************)
CoverageThreshold == 9000
PlatformThreshold == 5000
GapTolerance == 5
DefaultTestsPerHour == 100
SummaryTestsPerPercent == 8647

NaN == 0 - 1
DefaultHistoryDays == 90
WeekDays == 7

VARIABLES
    pc,                     \* position of the script
    slice,                  \* which input source this run explores in depth
    jira,                   \* TRUE when the Jira client was created
    df_platform_type,       \* rows of the platform type x mode query
    df_platform,            \* rows of the platform query
    tests_per_hour,
    overall_coverage,
    overall_pass_ratio,
    overall_tests_executed,
    overall_available_tests,
    overall_tests_passed,
    overall_total_executions,
    bugs_on_dev,
    bugs_on_qa,
    total_open_bugs,
    sub_test_total,
    sub_test_completed,
    sub_test_accepted,
    sub_test_in_progress,
    sub_test_not_started,
    gate1_passed,
    gate1_details,
    gate2_passed,
    gate2_details,
    gate3_passed,
    gap_percentage,
    completed_not_accepted,
    gate4_fully_passed,
    gate4_pending_ok,
    gate4_passed,
    gate4_result,
    gate5_passed,
    gate5_details,
    gates_status,
    overall_passed,
    warnings,               \* the warnings printed by the except clauses
    status,                 \* the loop variable of the counting and gate loops
    tests_needed_coverage,  \* Gate 5 remediation computed for the report
    hours_needed_coverage,
    gate4_report_status,    \* status cell of the Gate 4 table of the report
    gate1_actions,          \* Gate 1 "Actions Required" entries of the report
    gate1_summary,          \* Gate 1 entries of the overall summary
    builds_input,           \* the answer to the "Builds:" prompt, stripped
    builds,                 \* the parsed build list
    issue,                  \* argument of get_bug_status_at_date
    target_date,            \* argument of get_bug_status_at_date
    status_at_date,         \* local of get_bug_status_at_date: the replayed status
    category,               \* what get_bug_status_at_date returned
    script,                 \* which weekly report is running
    jira_ops,               \* the Jira operations a weekly report has issued
    all_issues,             \* weekly trend: the issues the search returned
    end_date,               \* weekly trend: datetime.now()
    current_date,           \* weekly trend: the week being counted
    historical              \* weekly trend: the data points appended so far

dbVars == <<df_platform_type, df_platform, tests_per_hour, overall_coverage,
            overall_pass_ratio, overall_tests_executed,
            overall_available_tests, overall_tests_passed,
            overall_total_executions>>
bugVars == <<bugs_on_dev, bugs_on_qa, total_open_bugs>>
subVars == <<sub_test_total, sub_test_completed, sub_test_accepted,
             sub_test_in_progress, sub_test_not_started>>
gate1Vars == <<gate1_passed, gate1_details>>
gate2Vars == <<gate2_passed, gate2_details>>
gate4Vars == <<gap_percentage, completed_not_accepted, gate4_fully_passed,
               gate4_pending_ok, gate4_passed, gate4_result>>
gate5Vars == <<gate5_passed, gate5_details>>
reportVars == <<tests_needed_coverage, hours_needed_coverage,
                gate4_report_status, gate1_actions, gate1_summary>>
buildVars == <<builds_input, builds>>
statusVars == <<issue, target_date, status_at_date, category>>
trendVars == <<script, jira_ops, all_issues, end_date, current_date, historical>>
gateVars == <<slice, jira, dbVars, bugVars, subVars, gate1Vars, gate2Vars,
              gate3_passed, gate4Vars, gate5Vars, gates_status, overall_passed,
              warnings, status, reportVars>>
vars == <<pc, gateVars, buildVars, statusVars, trendVars>>

(***************************************************************************)
(* Python / SQL arithmetic.                                                *)
(***************************************************************************)
\* x > y on floats: every comparison with NaN is False
PyGt(x, y) == x # NaN /\ y # NaN /\ x > y

\* max(0, x): Python keeps the first argument unless a later one is greater
PyMax0(x) == IF PyGt(x, 0) THEN x ELSE 0

\* a - b on floats
PySub(a, b) == IF a = NaN \/ b = NaN THEN NaN ELSE a - b

\* ROUND(n::numeric * 100.0 / d, 2) in hundredths of a percent, n, d >= 0;
\* a NULL operand or NULLIF(d, 0) gives NULL
RoundPercent(n, d) ==
    IF n = NaN \/ d = NaN \/ d = 0 THEN NaN
    ELSE (2 * 10000 * n + d) \div (2 * d)

(***************************************************************************)
(* What the external systems may answer.  The input space is explored in   *)
(* slices: a run varies the input source named by its slice over the full  *)
(* domain below and every other source over a passing and a failing        *)
(* representative (a passing one only in the "executions" slice, whose     *)
(* counting loop is explored up to MaxExecutions issues).  The failing     *)
(* representative sits on the threshold, except in the "rate" slice, where *)
(* it leaves a coverage gap for the time estimates to work on.  Each of    *)
(* the two coverage slices also gives the other frame no row at all.       *)
(***************************************************************************)
Slices == {"platform_type", "platform", "rate", "overall", "bugs", "executions"}

Representatives(s, passing, failing) ==
    IF s = "executions" THEN {passing} ELSE {passing, failing}

\* (platform_type, mode) groups in the order of ORDER BY platform_type, mode
PlatformTypeKeys ==
    << <<"EZchip", "Routing">>, <<"EZchip", "Transparent">>,
       <<"FPGA", "Routing">>, <<"FPGA", "Transparent">>,
       <<"Other", "Routing">>, <<"Other", "Transparent">>,
       <<"Software", "Routing">>, <<"Software", "Transparent">> >>

\* one row of query_platform_type: the i-th group with e tests executed out
\* of a available, p of them passed
PlatformTypeRow(i, e, a, p) ==
    [platform_type |-> PlatformTypeKeys[i][1],
     mode |-> PlatformTypeKeys[i][2],
     tests_executed |-> e,
     available_tests |-> a,
     coverage_percent |-> RoundPercent(e, a),
     tests_passed |-> p,
     pass_ratio |-> RoundPercent(p, e)]

\* <<tests_executed, available_tests, tests_passed>> of a group
PlatformTypeMetrics ==
    { <<0, 10000, 0>>,          \* coverage  0.00, pass ratio NULL
      <<4000, 10000, 3500>>,    \* coverage 40.00, pass ratio 87.50
      <<4999, 10000, 4500>>,    \* coverage 49.99, pass ratio 90.02
      <<9000, 10000, 8101>>,    \* coverage 90.00, pass ratio 90.01
      <<9001, 10000, 8101>>,    \* coverage 90.01, pass ratio 90.00
      <<9001, 10000, 8102>>,    \* coverage 90.01, pass ratio 90.01
      <<12000, 10000, 11700>> } \* coverage 120.00, pass ratio 97.50

PlatformTypeFrame(ms) ==
    [i \in 1..Len(ms) |-> PlatformTypeRow(i, ms[i][1], ms[i][2], ms[i][3])]

\* the failing representative of a group: on the threshold; with a coverage
\* gap where the execution rate is explored; without an executed test (NULL
\* pass ratio) where the overall query is
FailingPlatformType(s) ==
    IF s = "rate" THEN <<4000, 10000, 3500>>
    ELSE IF s = "overall" THEN <<0, 10000, 0>>
    ELSE <<9000, 10000, 8101>>

PlatformTypeFrames(s) ==
    IF s = "platform_type"
    THEN { PlatformTypeFrame(ms) :
             ms \in UNION { [1..n -> PlatformTypeMetrics] :
                              n \in 0..MaxPlatformTypeRows } }
    ELSE { PlatformTypeFrame(<<m>>) :
             m \in Representatives(s, <<9500, 10000, 9300>>,
                                   FailingPlatformType(s)) }
         \cup (IF s = "platform" THEN {<<>>} ELSE {})

PlatformNames == <<"UHT", "MRQP", "MR2", "ESXI", "KVM", "VL3", "HT2", "MRQ_X">>

\* one row of query_platform
PlatformRow(i, e, a) ==
    [platform |-> PlatformNames[i],
     tests_executed |-> e,
     available_tests |-> a,
     coverage_percent |-> RoundPercent(e, a)]

\* <<tests_executed, available_tests>> of a platform
PlatformMetrics ==
    { <<12000, 10000>>,         \* coverage 120.00
      <<5001, 10000>>,          \* coverage  50.01
      <<5000, 10000>>,          \* coverage  50.00
      <<4999, 10000>> }         \* coverage  49.99

PlatformFrame(ms) ==
    [i \in 1..Len(ms) |-> PlatformRow(i, ms[i][1], ms[i][2])]

\* ORDER BY tests_executed DESC
SortedDesc(ms) == \A i \in 1..(Len(ms) - 1) : ms[i][1] >= ms[i + 1][1]

PlatformFrames(s) ==
    IF s = "platform"
    THEN { PlatformFrame(ms) :
             ms \in { q \in UNION { [1..n -> PlatformMetrics] :
                                      n \in 0..MaxPlatformRows } :
                        SortedDesc(q) } }
    ELSE { PlatformFrame(<<m>>) :
             m \in Representatives(s, <<5001, 10000>>, <<5000, 10000>>) }
         \cup (IF s = "platform_type" THEN {<<>>} ELSE {})

\* answers of query_execution_rate: an exception, no row, or the AVG value
\* (NULL when no build has a positive duration)
RateResults(s) ==
    IF s = "rate"
    THEN { [kind |-> "error", tests_per_hour |-> NaN],
           [kind |-> "empty", tests_per_hour |-> NaN] }
         \cup { [kind |-> "row", tests_per_hour |-> v] : v \in {NaN, 0, 50, 250} }
    ELSE { [kind |-> "row", tests_per_hour |-> 250] }

OverallRow(e, a, x, p) ==
    [kind |-> "row",
     total_tests_executed |-> e,
     total_available |-> a,
     coverage_percentage |-> RoundPercent(e, a),
     total_executions |-> x,
     tests_passed |-> p,
     pass_ratio |-> RoundPercent(p, x)]

\* answers of query_overall: an exception (a zero total_available is a
\* division by zero in the query), no row, or the single aggregate row
OverallResults(s) ==
    IF s = "overall"
    THEN { [kind |-> "error"], [kind |-> "empty"],
           OverallRow(0, 10000, 0, NaN),          \*  0.00, NULL
           OverallRow(4000, 10000, 4000, 3500),   \* 40.00, 87.50
           OverallRow(4999, 10000, 4999, 4500),   \* 49.99, 90.02
           OverallRow(9000, 10000, 9000, 8101),   \* 90.00, 90.01
           OverallRow(9001, 10000, 9001, 8101),   \* 90.01, 90.00
           OverallRow(9001, 10000, 9001, 8102),   \* 90.01, 90.01
           OverallRow(9500, 10000, 19000, 18600) }\* 95.00, 97.89
    ELSE Representatives(s, OverallRow(9500, 10000, 19000, 18600),
                            IF s = "rate" THEN OverallRow(4000, 10000, 4000, 3500)
                            ELSE OverallRow(9000, 10000, 9000, 8101))

\* answers of the three bug searches; failAt = k means the k-th search
\* raised, 0 that none did
BugResults(s) ==
    IF s = "bugs"
    THEN [dev : 0..MaxBugs, qa : 0..MaxBugs, open : 0..MaxBugs, failAt : 0..3]
    ELSE Representatives(s, [dev |-> 0, qa |-> 0, open |-> 0, failAt |-> 0],
                            [dev |-> 1, qa |-> 0, open |-> 1, failAt |-> 0])

\* str(issue.fields.status).lower() of a fetched sub test execution
Statuses ==
    {"trash", "done", "completed", "passed", "failed", "closed", "accepted",
     "in progress", "executing", "in review", "to do"}

\* how many non-trash executions the search may return; the "platform_type"
\* slice, the largest, takes the representatives of the other sources: no
\* execution or one
ExecutionLimit(s) ==
    IF s = "executions" THEN MaxExecutions
    ELSE IF s = "platform_type" THEN 1
    ELSE FewExecutions

(***************************************************************************)
(* Build input parsing (generate_gate_analysis.py and                      *)
(* generate_release_readiness.py, the same code).  A Python string is a    *)
(* sequence of one-character strings.                                      *)
(***************************************************************************)
\* characters an answer is made of
BuildChars == {"1", "2", "-", ",", " ", "x"}

DigitChars == <<"0", "1", "2", "3", "4", "5", "6", "7", "8", "9">>

\* s.strip()
RECURSIVE StripLeft(_)
StripLeft(s) == IF s # <<>> /\ Head(s) = " " THEN StripLeft(Tail(s)) ELSE s

RECURSIVE StripRight(_)
StripRight(s) ==
    IF s # <<>> /\ s[Len(s)] = " " THEN StripRight(SubSeq(s, 1, Len(s) - 1))
    ELSE s

Strip(s) == StripRight(StripLeft(s))

\* sep in s
Contains(s, sep) == \E i \in 1..Len(s) : s[i] = sep

\* s.split(sep)
RECURSIVE Split(_, _)
Split(s, sep) ==
    IF ~Contains(s, sep) THEN <<s>>
    ELSE LET i == CHOOSE k \in 1..Len(s) :
                      s[k] = sep /\ \A j \in 1..(k - 1) : s[j] # sep
         IN  <<SubSeq(s, 1, i - 1)>> \o Split(SubSeq(s, i + 1, Len(s)), sep)

\* int(t) does not raise ValueError: digits, possibly between blanks
ParsesAsInt(t) ==
    LET d == Strip(t)
    IN  d # <<>> /\ \A i \in 1..Len(d) : \E v \in 1..10 : DigitChars[v] = d[i]

DigitValue(c) == (CHOOSE v \in 1..10 : DigitChars[v] = c) - 1

\* int(t) of a sequence of digits
RECURSIVE IntOfDigits(_)
IntOfDigits(d) ==
    IF d = <<>> THEN 0
    ELSE 10 * IntOfDigits(SubSeq(d, 1, Len(d) - 1)) + DigitValue(d[Len(d)])

IntOf(t) == IntOfDigits(Strip(t))

\* str(n), n >= 0
RECURSIVE Str(_)
Str(n) ==
    IF n < 10 THEN <<DigitChars[n + 1]>>
    ELSE Str(n \div 10) \o <<DigitChars[(n % 10) + 1]>>

\* [str(b) for b in range(start_build, end_build + 1)]
RangeBuilds(start_build, end_build) ==
    [k \in 1..(IF end_build >= start_build
               THEN end_build - start_build + 1 ELSE 0) |->
        Str(start_build + k - 1)]

\* [b.strip() for b in builds_input.split(',')]
CommaBuilds(s) ==
    LET parts == Split(s, ",") IN [k \in 1..Len(parts) |-> Strip(parts[k])]

\* ['95', '96', '97', '98', '101', '102', '103', '104', '106']
DefaultBuilds ==
    << <<"9", "5">>, <<"9", "6">>, <<"9", "7">>, <<"9", "8">>,
       <<"1", "0", "1">>, <<"1", "0", "2">>, <<"1", "0", "3">>,
       <<"1", "0", "4">>, <<"1", "0", "6">> >>

\* the build list for a stripped answer: the if / try / except / else chain
BuildsOf(input) ==
    IF input = <<>> THEN DefaultBuilds
    ELSE IF Contains(input, "-") /\ ~Contains(input, ",")
    THEN LET parts == Split(input, "-")
         IN  IF Len(parts) = 2 /\ ParsesAsInt(parts[1]) /\ ParsesAsInt(parts[2])
             THEN RangeBuilds(IntOf(parts[1]), IntOf(parts[2]))
             ELSE CommaBuilds(input)
    ELSE CommaBuilds(input)

\* input("Builds: ").strip() of the answers explored
BuildInputs ==
    { Strip(raw) : raw \in UNION { [1..n -> BuildChars] : n \in 0..MaxInputLen } }

(***************************************************************************)
(* get_bug_status_at_date (weekly_high_severity_bug_trend.py,              *)
(* weekly_work_summary.py and unified_weekly_report.py, the same code).    *)
(***************************************************************************)
NoIssue == [created |-> 0, histories |-> <<>>]

\* no call of get_bug_status_at_date is under way
NoStatusCall ==
    /\ issue = NoIssue
    /\ target_date = 0
    /\ status_at_date = <<>>
    /\ category = ""

\* no weekly report is running
NoTrendRun ==
    /\ script = ""
    /\ jira_ops = {}
    /\ all_issues = <<>>
    /\ end_date = 0
    /\ current_date = 0
    /\ historical = <<>>

\* workflow statuses a changelog item carries in toString
InProgress == <<"I", "n", " ", "P", "r", "o", "g", "r", "e", "s", "s">>
Completed == <<"C", "o", "m", "p", "l", "e", "t", "e", "d">>
Accepted == <<"A", "c", "c", "e", "p", "t", "e", "d">>
Closed == <<"C", "l", "o", "s", "e", "d">>
WorkflowStatuses == {InProgress, Completed, Accepted, Closed}

\* status_at_date = 'None'
InitialStatus == <<"N", "o", "n", "e">>

UpperCase == <<"A", "B", "C", "D", "E", "F", "G", "H", "I", "J", "K", "L", "M",
               "N", "O", "P", "Q", "R", "S", "T", "U", "V", "W", "X", "Y", "Z">>
LowerCase == <<"a", "b", "c", "d", "e", "f", "g", "h", "i", "j", "k", "l", "m",
               "n", "o", "p", "q", "r", "s", "t", "u", "v", "w", "x", "y", "z">>

\* s.lower()
Lower(s) ==
    [i \in 1..Len(s) |->
        IF \E k \in 1..Len(UpperCase) : UpperCase[k] = s[i]
        THEN LowerCase[CHOOSE k \in 1..Len(UpperCase) : UpperCase[k] = s[i]]
        ELSE s[i]]

\* sub in s, for strings
HasSubstring(s, sub) ==
    \E i \in 1..(Len(s) - Len(sub) + 1) : SubSeq(s, i, i + Len(sub) - 1) = sub

\* A timestamp is a number of half days: 2 * day - 1 is the morning of the
\* day and 2 * day its afternoon.  All timestamps of one changelog carry the
\* same UTC offset, so the order of the strings is the order of the numbers.
Timestamps == 1..(2 * MaxDay)

\* datetime.strptime(created[:19], ...).date()
DateOf(created) == (created + 1) \div 2

\* one changelog history: its timestamp and its one item
Histories ==
    [created : Timestamps, field : {"status", "assignee"}, toString : WorkflowStatuses]

\* an issue as the search returns it: the creation day and the changelog in
\* the order delivered; no change is older than the issue (the toString of
\* an assignee change is never read and takes one value)
Issues ==
    { i \in [created : 1..MaxDay,
             histories : UNION { [1..n -> Histories] : n \in 0..MaxHistories }] :
        \A k \in 1..Len(i.histories) :
            /\ DateOf(i.histories[k].created) >= i.created
            /\ i.histories[k].field = "assignee" =>
                   i.histories[k].toString = InProgress }

\* sorted(changelog.histories, key=lambda h: h.created): a stable sort
RECURSIVE SortedHistories(_)
SortedHistories(histories) ==
    IF histories = <<>> THEN <<>>
    ELSE LET front == SortedHistories(SubSeq(histories, 1, Len(histories) - 1))
             h == histories[Len(histories)]
             n == Cardinality({k \in 1..Len(front) : front[k].created <= h.created})
         IN  SubSeq(front, 1, n) \o <<h>> \o SubSeq(front, n + 1, Len(front))

\* the for loop over sorted_histories from position i on, with its break
RECURSIVE Replay(_, _, _, _)
Replay(sorted_histories, i, target, st) ==
    IF i > Len(sorted_histories) THEN st
    ELSE IF DateOf(sorted_histories[i].created) > target THEN st
    ELSE Replay(sorted_histories, i + 1, target,
                IF sorted_histories[i].field = "status"
                THEN sorted_histories[i].toString ELSE st)

\* variant: the changelog replayed in the order delivered
StatusAtDateAsDelivered(i, target) ==
    Replay(i.histories, 1, target, InitialStatus)

\* the status replayed for an issue created on or before target
StatusAtDate(i, target) ==
    Replay(SortedHistories(i.histories), 1, target, InitialStatus)

\* the if / elif chain on status_lower
Categorize(st) ==
    LET status_lower == Lower(st)
    IN  IF HasSubstring(status_lower, <<"a", "c", "c", "e", "p", "t", "e", "d">>)
        THEN "closed"
        ELSE IF HasSubstring(status_lower,
                             <<"c", "o", "m", "p", "l", "e", "t", "e", "d">>)
        THEN "qa"
        ELSE "dev"

\* get_bug_status_at_date(issue, target_date)
GetBugStatusAtDate(i, target) ==
    IF i.created > target THEN "not_created"
    ELSE Categorize(StatusAtDate(i, target))

(***************************************************************************)
(* The weekly reports (weekly_high_severity_bug_trend.py and               *)
(* weekly_work_summary.py).                                                *)
(***************************************************************************)
\* the calls the reports make on the Jira client
JiraConnect == "connect"
\* variant: a call that moves an issue to another status
JiraTransitionIssue == "transition_issue"
JiraSearchIssues == "search_issues"

\* days a bug is created or changed on: the first day of each week explored
TrendDays == {1 + WeekDays * w : w \in 0..MaxWeeks}

\* datetime.now().date(): a day of TrendDays or a day in the middle of its week
Todays == TrendDays \cup {d + 3 : d \in TrendDays}

\* a bug of the release: never changed (on Dev), or moved once to Completed
\* or Accepted
TrendHistories ==
    [created : {2 * d - 1 : d \in TrendDays}, field : {"status"},
     toString : {Completed, Accepted}]

TrendIssues ==
    { i \in [created : TrendDays,
             histories : UNION { [1..n -> TrendHistories] : n \in 0..1 }] :
        \A k \in 1..Len(i.histories) :
            DateOf(i.histories[k].created) >= i.created }

\* what the search can return: ORDER BY created ASC
SearchResults ==
    { r \in UNION { [1..n -> TrendIssues] : n \in 0..MaxIssues } :
        \A k \in 1..(Len(r) - 1) : r[k].created <= r[k + 1].created }

\* earliest_date
EarliestDate(issues, today) ==
    IF issues # <<>>
    THEN CHOOSE d \in {issues[k].created : k \in 1..Len(issues)} :
             \A k \in 1..Len(issues) : d <= issues[k].created
    ELSE today - DefaultHistoryDays

\* the number of issues of the list that made get_bug_status_at_date return c
CountCategory(issues, date, c) ==
    Cardinality({k \in 1..Len(issues) :
                    /\ issues[k].created <= date
                    /\ GetBugStatusAtDate(issues[k], date) = c})

\* variant: every issue is counted in the total, created or not
TrendPointUnguarded(issues, date) ==
    [date |-> date,
     total |-> Len(issues),
     dev |-> Cardinality({k \in 1..Len(issues) :
                             GetBugStatusAtDate(issues[k], date) = "dev"}),
     qa |-> Cardinality({k \in 1..Len(issues) :
                            GetBugStatusAtDate(issues[k], date) = "qa"}),
     closed |-> Cardinality({k \in 1..Len(issues) :
                                GetBugStatusAtDate(issues[k], date) = "closed"})]

\* one pass of the while loop: the counts appended for current_date
TrendPoint(issues, date) ==
    [date |-> date,
     total |-> Cardinality({k \in 1..Len(issues) : issues[k].created <= date}),
     dev |-> CountCategory(issues, date, "dev"),
     qa |-> CountCategory(issues, date, "qa"),
     closed |-> CountCategory(issues, date, "closed")]

(***************************************************************************)
(* Initial state: the script starts, nothing is connected or computed.     *)
(* Variables the script has not assigned yet hold a placeholder.           *)
(***************************************************************************)
GateStart ==
    /\ jira = FALSE
    /\ df_platform_type = <<>>
    /\ df_platform = <<>>
    /\ tests_per_hour = 0
    /\ overall_coverage = 0
    /\ overall_pass_ratio = 0
    /\ overall_tests_executed = 0
    /\ overall_available_tests = 0
    /\ overall_tests_passed = 0
    /\ overall_total_executions = 0
    /\ bugs_on_dev = 0
    /\ bugs_on_qa = 0
    /\ total_open_bugs = 0
    /\ sub_test_total = 0
    /\ sub_test_completed = 0
    /\ sub_test_accepted = 0
    /\ sub_test_in_progress = 0
    /\ sub_test_not_started = 0
    /\ gate1_passed = FALSE
    /\ gate1_details = <<>>
    /\ gate2_passed = FALSE
    /\ gate2_details = <<>>
    /\ gate3_passed = FALSE
    /\ gap_percentage = [num |-> 0, den |-> 1]
    /\ completed_not_accepted = 0
    /\ gate4_fully_passed = FALSE
    /\ gate4_pending_ok = FALSE
    /\ gate4_passed = FALSE
    /\ gate4_result = ""
    /\ gate5_passed = FALSE
    /\ gate5_details = <<>>
    /\ gates_status = <<>>
    /\ overall_passed = FALSE
    /\ warnings = {}
    /\ status = ""
    /\ tests_needed_coverage = 0
    /\ hours_needed_coverage = [num |-> 0, den |-> 1]
    /\ gate4_report_status = ""
    /\ gate1_actions = <<>>
    /\ gate1_summary = <<>>

\* the script was started with an empty answer to the "Builds:" prompt and
\* is about to connect
Init ==
    /\ pc = "connect_db"
    /\ slice \in Slices
    /\ GateStart
    /\ builds_input = <<>>
    /\ builds = DefaultBuilds
    /\ NoStatusCall
    /\ NoTrendRun

(***************************************************************************)
(* Connections and queries.                                                *)
(***************************************************************************)
\* psycopg2.connect: on an exception the script prints and calls exit(1)
ConnectDatabase ==
    /\ pc = "connect_db"
    /\ \E ok \in BOOLEAN :
         pc' = IF ok THEN "query_baseline" ELSE "exit"
    /\ UNCHANGED <<buildVars, statusVars, trendVars>>
    /\ UNCHANGED <<warnings, status, reportVars, slice, jira, dbVars, bugVars,
                   subVars, gate1Vars, gate2Vars, gate3_passed, gate4Vars,
                   gate5Vars, gates_status, overall_passed>>

\* the skipped-tests and total-tests queries run outside any try block: an
\* exception ends the script with a traceback
QueryBaseline ==
    /\ pc = "query_baseline"
    /\ \E ok \in BOOLEAN :
         pc' = IF ok THEN "connect_jira" ELSE "crashed"
    /\ UNCHANGED <<buildVars, statusVars, trendVars>>
    /\ UNCHANGED <<warnings, status, reportVars, slice, jira, dbVars, bugVars,
                   subVars, gate1Vars, gate2Vars, gate3_passed, gate4Vars,
                   gate5Vars, gates_status, overall_passed>>

\* jira = None; try: jira = JIRA(...) except: print a warning and go on
ConnectJira ==
    /\ pc = "connect_jira"
    /\ jira' \in BOOLEAN
    /\ warnings' = IF jira' THEN warnings
                   ELSE warnings \cup {"jira_connection"}
    /\ pc' = "query_platform_type"
    /\ UNCHANGED <<buildVars, statusVars, trendVars>>
    /\ UNCHANGED <<status, reportVars, slice, dbVars, bugVars, subVars,
                   gate1Vars, gate2Vars, gate3_passed, gate4Vars, gate5Vars,
                   gates_status, overall_passed>>

\* df_platform_type = pd.read_sql(query_platform_type, conn), not guarded
QueryPlatformType ==
    /\ pc = "query_platform_type"
    /\ \/ /\ df_platform_type' \in PlatformTypeFrames(slice)
          /\ pc' = "query_platform"
       \/ /\ pc' = "crashed"
          /\ UNCHANGED df_platform_type
    /\ UNCHANGED <<buildVars, statusVars, trendVars>>
    /\ UNCHANGED <<warnings, status, reportVars, slice, jira, df_platform,
                   tests_per_hour, overall_coverage, overall_pass_ratio,
                   overall_tests_executed, overall_available_tests,
                   overall_tests_passed, overall_total_executions, bugVars,
                   subVars, gate1Vars, gate2Vars, gate3_passed, gate4Vars,
                   gate5Vars, gates_status, overall_passed>>

\* df_platform = pd.read_sql(query_platform, conn), not guarded
QueryPlatform ==
    /\ pc = "query_platform"
    /\ \/ /\ df_platform' \in PlatformFrames(slice)
          /\ pc' = "query_rate"
       \/ /\ pc' = "crashed"
          /\ UNCHANGED df_platform
    /\ UNCHANGED <<buildVars, statusVars, trendVars>>
    /\ UNCHANGED <<warnings, status, reportVars, slice, jira, df_platform_type,
                   tests_per_hour, overall_coverage, overall_pass_ratio,
                   overall_tests_executed, overall_available_tests,
                   overall_tests_passed, overall_total_executions, bugVars,
                   subVars, gate1Vars, gate2Vars, gate3_passed, gate4Vars,
                   gate5Vars, gates_status, overall_passed>>

\* bool(x) of a float: zero is falsy, NaN is truthy
Truthy(x) == x # 0

\* the try block around query_execution_rate raises when read_sql does, and
\* when the averages are NULL: the only row then holds None, which the
\* {..:.1f} formats of the prints reject
RateRaises(r) ==
    r.kind = "error" \/ (r.kind = "row" /\ r.tests_per_hour = NaN)

\* tests_per_hour after the try/except around query_execution_rate
TestsPerHourOf(r) ==
    IF RateRaises(r) \/ r.kind = "empty" THEN DefaultTestsPerHour
    ELSE IF Truthy(r.tests_per_hour) THEN r.tests_per_hour
    ELSE DefaultTestsPerHour

QueryExecutionRate ==
    /\ pc = "query_rate"
    /\ \E r \in RateResults(slice) :
         /\ tests_per_hour' = TestsPerHourOf(r)
         /\ warnings' = IF RateRaises(r)
                        THEN warnings \cup {"execution_rate"} ELSE warnings
    /\ pc' = "query_overall"
    /\ UNCHANGED <<buildVars, statusVars, trendVars>>
    /\ UNCHANGED <<status, reportVars, slice, jira, df_platform_type,
                   df_platform, overall_coverage, overall_pass_ratio,
                   overall_tests_executed, overall_available_tests,
                   overall_tests_passed, overall_total_executions, bugVars,
                   subVars, gate1Vars, gate2Vars, gate3_passed, gate4Vars,
                   gate5Vars, gates_status, overall_passed>>

\* the try block around query_overall raises when read_sql does (a zero
\* total_available is a division by zero in the query), and when there is no
\* execution: tests_passed and pass_ratio of the only row are then NULL and
\* reach Python as None, which the {..:.2f} format of the print rejects
OverallRaises(r) ==
    r.kind = "error" \/ (r.kind = "row" /\ r.pass_ratio = NaN)

\* the six overall values when none is available
NoOverallValues ==
    [coverage |-> 0, pass_ratio |-> 0, tests_executed |-> 0,
     available_tests |-> 0, tests_passed |-> 0, total_executions |-> 0]

\* variant: the except clause keeps what the try block assigned
OverallValuesNotReset(r) ==
    IF r.kind = "row"
    THEN [coverage |-> r.coverage_percentage,
          pass_ratio |-> r.pass_ratio,
          tests_executed |-> r.total_tests_executed,
          available_tests |-> r.total_available,
          tests_passed |-> r.tests_passed,
          total_executions |-> r.total_executions]
    ELSE NoOverallValues

\* try: df_overall = pd.read_sql(query_overall, conn); each value is
\* .iloc[0] of its column, or 0 when the frame is empty; except: all are 0
OverallValuesOf(r) ==
    IF r.kind = "row" /\ ~OverallRaises(r)
    THEN [coverage |-> r.coverage_percentage,
          pass_ratio |-> r.pass_ratio,
          tests_executed |-> r.total_tests_executed,
          available_tests |-> r.total_available,
          tests_passed |-> r.tests_passed,
          total_executions |-> r.total_executions]
    ELSE NoOverallValues

\* the try/except around query_overall, then conn.close()
QueryOverall ==
    /\ pc = "query_overall"
    /\ \E r \in OverallResults(slice) :
         /\ warnings' = IF OverallRaises(r)
                        THEN warnings \cup {"overall_metrics"} ELSE warnings
         /\ overall_coverage' = OverallValuesOf(r).coverage
         /\ overall_pass_ratio' = OverallValuesOf(r).pass_ratio
         /\ overall_tests_executed' = OverallValuesOf(r).tests_executed
         /\ overall_available_tests' = OverallValuesOf(r).available_tests
         /\ overall_tests_passed' = OverallValuesOf(r).tests_passed
         /\ overall_total_executions' = OverallValuesOf(r).total_executions
    /\ pc' = "query_bugs"
    /\ UNCHANGED <<buildVars, statusVars, trendVars>>
    /\ UNCHANGED <<status, reportVars, slice, jira, df_platform_type,
                   df_platform, tests_per_hour, bugVars, subVars, gate1Vars,
                   gate2Vars, gate3_passed, gate4Vars, gate5Vars, gates_status,
                   overall_passed>>

\* variant: every count is assigned before a search can raise
BugCountsAssignedFirst(r) ==
    [dev |-> r.dev, qa |-> r.qa, open |-> r.open]

\* the three counts after the try block of the bug searches: each is
\* assigned right after its search, and an exception leaves the later ones
\* at their initial 0
BugCountsAfter(r) ==
    [dev |-> IF r.failAt = 1 THEN 0 ELSE r.dev,
     qa |-> IF r.failAt \in {1, 2} THEN 0 ELSE r.qa,
     open |-> IF r.failAt \in {1, 2, 3} THEN 0 ELSE r.open]

\* the three counts start at 0; with a Jira client the three searches run in
\* one try block
QueryBugs ==
    /\ pc = "query_bugs"
    /\ IF jira
       THEN \E r \in BugResults(slice) :
              /\ bugs_on_dev' = BugCountsAfter(r).dev
              /\ bugs_on_qa' = BugCountsAfter(r).qa
              /\ total_open_bugs' = BugCountsAfter(r).open
              /\ warnings' = IF r.failAt # 0
                             THEN warnings \cup {"bugs"} ELSE warnings
       ELSE /\ bugs_on_dev' = 0
            /\ bugs_on_qa' = 0
            /\ total_open_bugs' = 0
            /\ UNCHANGED warnings
    /\ pc' = "query_sub_tests"
    /\ UNCHANGED <<buildVars, statusVars, trendVars>>
    /\ UNCHANGED <<status, reportVars, slice, jira, dbVars, subVars, gate1Vars,
                   gate2Vars, gate3_passed, gate4Vars, gate5Vars, gates_status,
                   overall_passed>>

\* the five counters start at 0; with a Jira client the search runs and its
\* result is iterated, unless the search itself raises
QuerySubTestExecutions ==
    /\ pc = "query_sub_tests"
    /\ sub_test_total' = 0
    /\ sub_test_completed' = 0
    /\ sub_test_accepted' = 0
    /\ sub_test_in_progress' = 0
    /\ sub_test_not_started' = 0
    /\ IF jira
       THEN \E ok \in BOOLEAN :
              /\ pc' = IF ok THEN "count_executions" ELSE "gate1"
              /\ warnings' = IF ok THEN warnings
                             ELSE warnings \cup {"sub_test_executions"}
       ELSE /\ pc' = "gate1"
            /\ UNCHANGED warnings
    /\ UNCHANGED <<buildVars, statusVars, trendVars>>
    /\ UNCHANGED <<status, reportVars, slice, jira, dbVars, bugVars, gate1Vars,
                   gate2Vars, gate3_passed, gate4Vars, gate5Vars, gates_status,
                   overall_passed>>

CompletedStatuses == {"done", "completed", "passed", "failed", "closed", "accepted"}
InProgressStatuses == {"in progress", "executing", "in review"}

\* variant: an execution in Trash is counted as not started
CountersAfterTrashCounted(st, c) ==
    [total |-> c.total + 1,
     completed |-> IF st \in CompletedStatuses
                   THEN c.completed + 1 ELSE c.completed,
     accepted |-> IF st = "accepted" THEN c.accepted + 1 ELSE c.accepted,
     in_progress |-> IF st \notin CompletedStatuses /\ st \in InProgressStatuses
                     THEN c.in_progress + 1 ELSE c.in_progress,
     not_started |-> IF st \notin CompletedStatuses
                        /\ st \notin InProgressStatuses
                     THEN c.not_started + 1 ELSE c.not_started]

\* the five counters after the loop body ran on an issue of status st:
\* `continue' on trash, else total += 1 and the if / elif / else chain
CountersAfter(st, c) ==
    IF st = "trash" THEN c
    ELSE [total |-> c.total + 1,
          completed |-> IF st \in CompletedStatuses
                        THEN c.completed + 1 ELSE c.completed,
          accepted |-> IF st = "accepted" THEN c.accepted + 1 ELSE c.accepted,
          in_progress |-> IF st \notin CompletedStatuses
                             /\ st \in InProgressStatuses
                          THEN c.in_progress + 1 ELSE c.in_progress,
          not_started |-> IF st \notin CompletedStatuses
                             /\ st \notin InProgressStatuses
                          THEN c.not_started + 1 ELSE c.not_started]

\* the five counters as one record
Counters ==
    [total |-> sub_test_total, completed |-> sub_test_completed,
     accepted |-> sub_test_accepted, in_progress |-> sub_test_in_progress,
     not_started |-> sub_test_not_started]

\* one iteration of the loop over the fetched executions
CountExecution ==
    /\ pc = "count_executions"
    /\ sub_test_total < ExecutionLimit(slice)
    /\ \E st \in Statuses :
         LET c == CountersAfter(st, Counters)
         IN  /\ status' = st
             /\ sub_test_total' = c.total
             /\ sub_test_completed' = c.completed
             /\ sub_test_accepted' = c.accepted
             /\ sub_test_in_progress' = c.in_progress
             /\ sub_test_not_started' = c.not_started
    /\ UNCHANGED <<buildVars, statusVars, trendVars>>
    /\ UNCHANGED <<warnings, reportVars, pc, slice, jira, dbVars, bugVars,
                   gate1Vars, gate2Vars, gate3_passed, gate4Vars, gate5Vars,
                   gates_status, overall_passed>>

\* the loop ends: the result list is exhausted, or an iteration raised (an
\* issue without the fields the loop reads) and the except clause printed
\* the error; the counters keep what the earlier iterations counted
EndCountExecutions ==
    /\ pc = "count_executions"
    /\ \E raised \in BOOLEAN :
         warnings' = IF raised THEN warnings \cup {"sub_test_executions"}
                     ELSE warnings
    /\ pc' = "gate1"
    /\ UNCHANGED <<buildVars, statusVars, trendVars>>
    /\ UNCHANGED <<status, reportVars, slice, jira, dbVars, bugVars, subVars,
                   gate1Vars, gate2Vars, gate3_passed, gate4Vars, gate5Vars,
                   gates_status, overall_passed>>

(***************************************************************************)
(* Gate evaluation.                                                        *)
(***************************************************************************)
\* variant: the 90% threshold itself passes
Above90OrEqual(x) == x # NaN /\ x >= CoverageThreshold

\* coverage > 90, pass_ratio > 90, overall_coverage > 90, ...
Above90(x) == PyGt(x, CoverageThreshold)

\* variant: the 50% threshold itself passes
Above50OrEqual(x) == x # NaN /\ x >= PlatformThreshold

\* coverage > 50
Above50(x) == PyGt(x, PlatformThreshold)

\* variant: the pass ratio is read without the notna guard
PassRatioUnguarded(row) == row.pass_ratio

\* row['pass_ratio'] if 'pass_ratio' in row and pd.notna(row['pass_ratio']) else 0
PassRatioOf(row) == IF row.pass_ratio # NaN THEN row.pass_ratio ELSE 0

\* variant: the coverage branch is tested before the combined one
Gate1ReasonCoverageFirst(coverage_passed, pass_ratio_passed) ==
    IF coverage_passed /\ pass_ratio_passed THEN ""
    ELSE IF ~coverage_passed THEN " (Coverage below 90%)"
    ELSE IF ~coverage_passed /\ ~pass_ratio_passed
         THEN " (Coverage & Pass Ratio below 90%)"
    ELSE " (Pass Ratio below 90%)"

\* the reason chosen by the if / elif chain of a Gate 1 row
Gate1Reason(coverage_passed, pass_ratio_passed) ==
    IF coverage_passed /\ pass_ratio_passed THEN ""
    ELSE IF ~coverage_passed /\ ~pass_ratio_passed
         THEN " (Coverage & Pass Ratio below 90%)"
    ELSE IF ~coverage_passed THEN " (Coverage below 90%)"
    ELSE " (Pass Ratio below 90%)"

\* variant: the signed distance to the threshold
GapTo90Signed(x) == PySub(CoverageThreshold, x)

\* max(0, 90.0 - x) and max(0, 50.0 - x)
GapTo90(x) == PyMax0(PySub(CoverageThreshold, x))
GapTo50(x) == PyMax0(PySub(PlatformThreshold, x))

\* <<gap, available_tests>>, among the inputs explored here, for which the
\* double product (gap / 100.0) * available_tests falls just below the
\* integer the exact product is, so that int() truncates one lower
FloatShort == { <<4001, 10000>>, <<5800, 100>>, <<2900, 100>> }

\* variant: the tests that the coverage below the threshold already stands
\* for, instead of the missing ones
TestsNeededCovered(gap, available_tests) ==
    ((CoverageThreshold - gap) * available_tests) \div 10000

\* int((gap / 100.0) * available_tests), gap in hundredths of a percent
TestsNeeded(gap, available_tests) ==
    LET exact == (gap * available_tests) \div 10000
    IN  IF <<gap, available_tests>> \in FloatShort THEN exact - 1 ELSE exact

\* variant: the rate divided by the number of tests
HoursNeededInverted(tests_needed, tph) ==
    IF PyGt(tph, 0) /\ tests_needed > 0 THEN [num |-> tph, den |-> tests_needed]
    ELSE [num |-> 0, den |-> 1]

\* tests_needed / tests_per_hour if tests_per_hour > 0 else 0, as a fraction
HoursNeeded(tests_needed, tph) ==
    IF PyGt(tph, 0) THEN [num |-> tests_needed, den |-> tph]
    ELSE [num |-> 0, den |-> 1]

\* variant: a row also passes when its missing tests fit into one day at
\* the current execution rate
Gate1DetailWithinADay(row, tph) ==
    LET coverage == row.coverage_percent
        pass_ratio == PassRatioOf(row)
        coverage_passed == Above90(coverage)
        pass_ratio_passed == Above90(pass_ratio)
        gap == GapTo90(coverage)
        tests_needed == TestsNeeded(gap, row.available_tests)
        passed == \/ coverage_passed /\ pass_ratio_passed
                  \/ PyGt(tph, 0) /\ tests_needed <= 24 * tph
    IN  [platform_type |-> row.platform_type,
         mode |-> row.mode,
         tests_executed |-> row.tests_executed,
         available_tests |-> row.available_tests,
         coverage |-> coverage,
         pass_ratio |-> pass_ratio,
         passed |-> passed,
         coverage_passed |-> coverage_passed,
         pass_ratio_passed |-> pass_ratio_passed,
         gap |-> gap,
         pass_ratio_gap |-> GapTo90(pass_ratio),
         tests_needed |-> tests_needed,
         hours_needed |-> HoursNeeded(tests_needed, tph),
         reason |-> IF passed THEN ""
                    ELSE Gate1Reason(coverage_passed, pass_ratio_passed)]

\* the dict appended to gate1_details for one row of df_platform_type
Gate1Detail(row, tph) ==
    LET coverage == row.coverage_percent
        pass_ratio == PassRatioOf(row)
        coverage_passed == Above90(coverage)
        pass_ratio_passed == Above90(pass_ratio)
        gap == GapTo90(coverage)
        tests_needed == TestsNeeded(gap, row.available_tests)
    IN  [platform_type |-> row.platform_type,
         mode |-> row.mode,
         tests_executed |-> row.tests_executed,
         available_tests |-> row.available_tests,
         coverage |-> coverage,
         pass_ratio |-> pass_ratio,
         passed |-> coverage_passed /\ pass_ratio_passed,
         coverage_passed |-> coverage_passed,
         pass_ratio_passed |-> pass_ratio_passed,
         gap |-> gap,
         pass_ratio_gap |-> GapTo90(pass_ratio),
         tests_needed |-> tests_needed,
         hours_needed |-> HoursNeeded(tests_needed, tph),
         reason |-> Gate1Reason(coverage_passed, pass_ratio_passed)]

\* the dict appended to gate2_details for one row of df_platform
Gate2Detail(row) ==
    [platform |-> row.platform,
     tests_executed |-> row.tests_executed,
     available_tests |-> row.available_tests,
     coverage |-> row.coverage_percent,
     passed |-> Above50(row.coverage_percent),
     gap |-> GapTo50(row.coverage_percent)]

\* variant: the gate takes the verdict of the last row
LastRowPassed(details, acc) ==
    IF details = <<>> THEN acc ELSE details[Len(details)].passed

\* gateN_passed = True; for each row: if not passed: gateN_passed = False
RECURSIVE AllRowsPassed(_, _)
AllRowsPassed(details, acc) ==
    IF details = <<>> THEN acc
    ELSE AllRowsPassed(Tail(details), IF ~Head(details).passed THEN FALSE ELSE acc)

GateStatus(gate, name, passed) == [gate |-> gate, name |-> name, passed |-> passed]

\* status = "READY" / "PENDING" of a row, printed with its mark
RowStatus(passed) == IF passed THEN "READY" ELSE "PENDING"

\* the loop variable status after a gate loop: that of the last row, or the
\* old value when the frame has no row
StatusAfterLoop(details, st) ==
    IF details = <<>> THEN st ELSE RowStatus(details[Len(details)].passed)

\* Gate 1: the loop over df_platform_type and the append to gates_status
EvaluateGate1 ==
    /\ pc = "gate1"
    /\ gate1_details' = [i \in 1..Len(df_platform_type) |->
                           Gate1Detail(df_platform_type[i], tests_per_hour)]
    /\ gate1_passed' = AllRowsPassed(gate1_details', TRUE)
    /\ gates_status' = Append(gates_status,
                              GateStatus("Gate 1", "Platform Type Coverage", gate1_passed'))
    /\ status' = StatusAfterLoop(gate1_details', status)
    /\ pc' = "gate2"
    /\ UNCHANGED <<buildVars, statusVars, trendVars>>
    /\ UNCHANGED <<warnings, reportVars, slice, jira, dbVars, bugVars, subVars,
                   gate2Vars, gate3_passed, gate4Vars, gate5Vars,
                   overall_passed>>

\* Gate 2: the loop over df_platform and the append to gates_status
EvaluateGate2 ==
    /\ pc = "gate2"
    /\ gate2_details' = [i \in 1..Len(df_platform) |-> Gate2Detail(df_platform[i])]
    /\ gate2_passed' = AllRowsPassed(gate2_details', TRUE)
    /\ gates_status' = Append(gates_status,
                              GateStatus("Gate 2", "Platform Coverage", gate2_passed'))
    /\ status' = StatusAfterLoop(gate2_details', status)
    /\ pc' = "gate3"
    /\ UNCHANGED <<buildVars, statusVars, trendVars>>
    /\ UNCHANGED <<warnings, reportVars, slice, jira, dbVars, bugVars, subVars,
                   gate1Vars, gate3_passed, gate4Vars, gate5Vars,
                   overall_passed>>

\* variant: the gate looks at the dev / qa breakdown
Gate3PassedByBreakdown(on_dev, on_qa, total_open) == on_dev + on_qa = 0

\* gate3_passed = total_open_bugs == 0
Gate3Passed(on_dev, on_qa, total_open) == total_open = 0

EvaluateGate3 ==
    /\ pc = "gate3"
    /\ gate3_passed' = Gate3Passed(bugs_on_dev, bugs_on_qa, total_open_bugs)
    /\ gates_status' = Append(gates_status,
                              GateStatus("Gate 3", "No Open Bugs", gate3_passed'))
    /\ pc' = "gate4"
    /\ UNCHANGED <<buildVars, statusVars, trendVars>>
    /\ UNCHANGED <<warnings, status, reportVars, slice, jira, dbVars, bugVars,
                   subVars, gate1Vars, gate2Vars, gate4Vars, gate5Vars,
                   overall_passed>>

\* variant: an empty release counts as a full gap
GapPercentageEmptyIsFull(total, accepted) ==
    IF total > 0 THEN [num |-> (total - accepted) * 100, den |-> total]
    ELSE [num |-> 100, den |-> 1]

\* ((total - accepted) / total * 100) if total > 0 else 0, as a fraction.
\* The counts are at most 1000 (maxResults), so the double quotient is
\* within 1e-13 of the exact one, distinct quotients differ by more than
\* 1e-6, and every total = 20 * (total - accepted) computes exactly
\* 0.05 * 100 = 5.0: comparing the fraction decides what the doubles decide.
GapPercentage(total, accepted) ==
    IF total > 0 THEN [num |-> (total - accepted) * 100, den |-> total]
    ELSE [num |-> 0, den |-> 1]

\* variant: gap_percentage <= 5.0
WithinTolerance(gap) == gap.num <= GapTolerance * gap.den

\* gap_percentage < 5.0
BelowTolerance(gap) == gap.num < GapTolerance * gap.den

\* variant: the total > 0 guard is missing
Gate4AllAccepted(total, accepted) == accepted = total

\* gate4_fully_passed = sub_test_total > 0 and sub_test_accepted == sub_test_total
Gate4FullyPassed(total, accepted) == total > 0 /\ accepted = total

\* variant: completed but unaccepted executions do not block
Gate4PendingOkByGapOnly(fully_passed, gap, not_accepted) ==
    ~fully_passed /\ gap.num < GapTolerance * gap.den

\* gate4_pending_ok = not gate4_fully_passed and gap_percentage < 5.0
\*                    and completed_not_accepted == 0
Gate4PendingOk(fully_passed, gap, not_accepted) ==
    ~fully_passed /\ BelowTolerance(gap) /\ not_accepted = 0

\* variant: the branch for completed but unaccepted executions is missing
Gate4ResultWithoutBlocked(fully_passed, pending_ok, not_accepted) ==
    IF fully_passed THEN "READY"
    ELSE IF pending_ok THEN "READY (pending completion)"
    ELSE "PENDING"

\* the branch of the "Gate 4 Result" print
Gate4Result(fully_passed, pending_ok, not_accepted) ==
    IF fully_passed THEN "READY"
    ELSE IF pending_ok THEN "READY (pending completion)"
    ELSE IF not_accepted > 0 THEN "NOT READY"
    ELSE "PENDING"

EvaluateGate4 ==
    /\ pc = "gate4"
    /\ gap_percentage' = GapPercentage(sub_test_total, sub_test_accepted)
    /\ completed_not_accepted' = sub_test_completed - sub_test_accepted
    /\ gate4_fully_passed' = Gate4FullyPassed(sub_test_total, sub_test_accepted)
    /\ gate4_pending_ok' = Gate4PendingOk(gate4_fully_passed', gap_percentage',
                                          completed_not_accepted')
    /\ gate4_passed' = (gate4_fully_passed' \/ gate4_pending_ok')
    /\ gates_status' = Append(gates_status,
                              GateStatus("Gate 4", "Sub Test Executions", gate4_passed'))
    /\ gate4_result' = Gate4Result(gate4_fully_passed', gate4_pending_ok',
                                   completed_not_accepted')
    /\ pc' = "gate5"
    /\ UNCHANGED <<buildVars, statusVars, trendVars>>
    /\ UNCHANGED <<warnings, status, reportVars, slice, jira, dbVars, bugVars,
                   subVars, gate1Vars, gate2Vars, gate3_passed, gate5Vars,
                   overall_passed>>

EvaluateGate5 ==
    /\ pc = "gate5"
    /\ LET gate5_coverage_passed == Above90(overall_coverage)
           gate5_pass_ratio_passed == Above90(overall_pass_ratio)
       IN  /\ gate5_passed' = (gate5_coverage_passed /\ gate5_pass_ratio_passed)
           /\ gate5_details' =
                [coverage |-> overall_coverage,
                 coverage_passed |-> gate5_coverage_passed,
                 coverage_gap |-> GapTo90(overall_coverage),
                 pass_ratio |-> overall_pass_ratio,
                 pass_ratio_passed |-> gate5_pass_ratio_passed,
                 pass_ratio_gap |-> GapTo90(overall_pass_ratio),
                 tests_executed |-> overall_tests_executed,
                 available_tests |-> overall_available_tests,
                 tests_passed |-> overall_tests_passed,
                 total_executions |-> overall_total_executions]
    /\ gates_status' = Append(gates_status,
                              GateStatus("Gate 5", "Overall Metrics", gate5_passed'))
    /\ pc' = "overall"
    /\ UNCHANGED <<buildVars, statusVars, trendVars>>
    /\ UNCHANGED <<warnings, status, reportVars, slice, jira, dbVars, bugVars,
                   subVars, gate1Vars, gate2Vars, gate3_passed, gate4Vars,
                   overall_passed>>

\* variant: any(g['passed'] for g in gates_status)
AnyPassed(gates) == \E i \in 1..Len(gates) : gates[i].passed

\* all(g['passed'] for g in gates_status)
AllPassed(gates) == \A i \in 1..Len(gates) : gates[i].passed

OverallStatus ==
    /\ pc = "overall"
    /\ overall_passed' = AllPassed(gates_status)
    /\ pc' = "report"
    /\ UNCHANGED <<buildVars, statusVars, trendVars>>
    /\ UNCHANGED <<warnings, status, reportVars, slice, jira, dbVars, bugVars,
                   subVars, gate1Vars, gate2Vars, gate3_passed, gate4Vars,
                   gate5Vars, gates_status>>

\* the status cell of the Gate 4 table of the report
Gate4ReportStatus(fully_passed, pending_ok) ==
    IF fully_passed THEN "READY"
    ELSE IF pending_ok THEN "READY (pending completion)"
    ELSE "NOT READY"

\* the Gate 1 "Actions Required" list: an entry per failed row, with the
\* tests to execute when the coverage check failed
Gate1Actions(passed, details) ==
    IF passed THEN <<>>
    ELSE [i \in 1..Len(details) |->
            [listed |-> ~details[i].passed,
             with_tests |-> ~details[i].passed /\ ~details[i].coverage_passed,
             tests |-> details[i].tests_needed]]

\* int(detail['gap'] * 86.47); the products of the explored gaps are not
\* within rounding distance of an integer
SummaryTests(detail) == (detail.gap * SummaryTestsPerPercent) \div 10000

\* the Gate 1 entries of the overall summary: one per failed row
Gate1Summary(all_passed, passed, details) ==
    IF all_passed \/ passed THEN <<>>
    ELSE [i \in 1..Len(details) |->
            [listed |-> ~details[i].passed,
             tests |-> SummaryTests(details[i])]]

\* the HTML report is built from the values above and written to a file;
\* its Gate 5 section computes the remediation of a coverage failure
GenerateReport ==
    /\ pc = "report"
    /\ gate1_actions' = Gate1Actions(gate1_passed, gate1_details)
    /\ gate4_report_status' =
          Gate4ReportStatus(gate4_fully_passed, gate4_pending_ok)
    /\ IF ~gate5_passed /\ ~gate5_details.coverage_passed
       THEN /\ tests_needed_coverage' =
                 TestsNeeded(gate5_details.coverage_gap,
                             gate5_details.available_tests)
            /\ hours_needed_coverage' =
                 HoursNeeded(tests_needed_coverage', tests_per_hour)
       ELSE UNCHANGED <<tests_needed_coverage, hours_needed_coverage>>
    /\ gate1_summary' = Gate1Summary(overall_passed, gate1_passed, gate1_details)
    /\ pc' = "done"
    /\ UNCHANGED <<buildVars, statusVars, trendVars>>
    /\ UNCHANGED <<warnings, status, slice, jira, dbVars, bugVars, subVars,
                   gate1Vars, gate2Vars, gate3_passed, gate4Vars, gate5Vars,
                   gates_status, overall_passed>>

Next ==
    \/ ConnectDatabase
    \/ QueryBaseline
    \/ ConnectJira
    \/ QueryPlatformType
    \/ QueryPlatform
    \/ QueryExecutionRate
    \/ QueryOverall
    \/ QueryBugs
    \/ QuerySubTestExecutions
    \/ CountExecution
    \/ EndCountExecutions
    \/ EvaluateGate1
    \/ EvaluateGate2
    \/ EvaluateGate3
    \/ EvaluateGate4
    \/ EvaluateGate5
    \/ OverallStatus
    \/ GenerateReport

Spec == Init /\ [][Next]_vars

(***************************************************************************)
(* The start of the script: the answer to the "Builds:" prompt is parsed.  *)
(***************************************************************************)
BuildInit ==
    /\ pc = "parse_builds"
    /\ slice \in Slices
    /\ GateStart
    /\ builds_input \in BuildInputs
    /\ builds = <<>>
    /\ NoStatusCall
    /\ NoTrendRun

ParseBuilds ==
    /\ pc = "parse_builds"
    /\ builds' = BuildsOf(builds_input)
    /\ pc' = "connect_db"
    /\ UNCHANGED <<builds_input, gateVars, statusVars, trendVars>>

BuildNext == ParseBuilds

BuildSpec == BuildInit /\ [][BuildNext]_vars

(***************************************************************************)
(* One call of get_bug_status_at_date.                                     *)
(***************************************************************************)
StatusInit ==
    /\ pc = "status_call"
    /\ slice = "executions"
    /\ GateStart
    /\ builds_input = <<>>
    /\ builds = DefaultBuilds
    /\ issue \in Issues
    /\ target_date \in 1..MaxDay
    /\ status_at_date = <<>>
    /\ category = ""
    /\ NoTrendRun

CallGetBugStatusAtDate ==
    /\ pc = "status_call"
    /\ status_at_date' = IF issue.created > target_date THEN <<>>
                         ELSE StatusAtDate(issue, target_date)
    /\ category' = GetBugStatusAtDate(issue, target_date)
    /\ pc' = "status_returned"
    /\ UNCHANGED <<issue, target_date, gateVars, buildVars, trendVars>>

StatusNext == CallGetBugStatusAtDate

StatusSpec == StatusInit /\ [][StatusNext]_vars

(***************************************************************************)
(* A run of a weekly report: "trend" is weekly_high_severity_bug_trend.py, *)
(* "summary" is weekly_work_summary.py with the list_open_bugs.py it runs  *)
(* at its end.  Every call on Jira either returns or raises; main catches  *)
(* the exception, prints it and returns.                                   *)
(***************************************************************************)
TrendInit ==
    /\ pc = "trend_connect"
    /\ slice = "executions"
    /\ GateStart
    /\ builds_input = <<>>
    /\ builds = DefaultBuilds
    /\ NoStatusCall
    /\ script \in {"trend", "summary"}
    /\ jira_ops = {}
    /\ all_issues = <<>>
    /\ end_date \in Todays
    /\ current_date = 0
    /\ historical = <<>>

\* connect_to_jira()
ConnectToJira ==
    /\ pc = "trend_connect"
    /\ jira_ops' = jira_ops \cup {JiraConnect}
    /\ pc' \in {"trend_search", "trend_error"}
    /\ UNCHANGED <<script, all_issues, end_date, current_date, historical>>
    /\ UNCHANGED <<gateVars, buildVars, statusVars>>

\* the search for the bugs of the release, and the start of the series
SearchBugs ==
    /\ pc = "trend_search"
    /\ jira_ops' = jira_ops \cup {JiraSearchIssues}
    /\ \/ /\ pc' = "trend_error"
          /\ UNCHANGED <<all_issues, current_date>>
       \/ /\ all_issues' \in SearchResults
          /\ current_date' = EarliestDate(all_issues', end_date)
          /\ pc' = IF script = "summary" THEN "summary_sub_search"
                   ELSE "trend_loop"
    /\ UNCHANGED <<script, end_date, historical>>
    /\ UNCHANGED <<gateVars, buildVars, statusVars>>

\* weekly_work_summary.py: the search for the sub test executions
SearchSubExecutions ==
    /\ pc = "summary_sub_search"
    /\ jira_ops' = jira_ops \cup {JiraSearchIssues}
    /\ pc' \in {"trend_loop", "trend_error"}
    /\ UNCHANGED <<script, all_issues, end_date, current_date, historical>>
    /\ UNCHANGED <<gateVars, buildVars, statusVars>>

\* one pass of while current_date <= end_date
TrendWeek ==
    /\ pc = "trend_loop"
    /\ current_date <= end_date
    /\ historical' = Append(historical, TrendPoint(all_issues, current_date))
    /\ current_date' = current_date + WeekDays
    /\ UNCHANGED <<pc, script, jira_ops, all_issues, end_date>>
    /\ UNCHANGED <<gateVars, buildVars, statusVars>>

\* the loop ends
TrendLoopEnd ==
    /\ pc = "trend_loop"
    /\ current_date > end_date
    /\ pc' = IF script = "summary" THEN "summary_detail_search"
             ELSE "trend_report"
    /\ UNCHANGED <<trendVars, gateVars, buildVars, statusVars>>

\* weekly_work_summary.py: the searches for the detailed bugs and for the
\* bugs by release
SearchDetails ==
    /\ pc = "summary_detail_search"
    /\ jira_ops' = jira_ops \cup {JiraSearchIssues}
    /\ pc' \in {"trend_report", "trend_error"}
    /\ UNCHANGED <<script, all_issues, end_date, current_date, historical>>
    /\ UNCHANGED <<gateVars, buildVars, statusVars>>

\* the CSV, the chart and the HTML report are written
WriteReport ==
    /\ pc = "trend_report"
    /\ pc' = "trend_main_done"
    /\ UNCHANGED <<trendVars, gateVars, buildVars, statusVars>>

\* except Exception: the error and the traceback are printed
HandleError ==
    /\ pc = "trend_error"
    /\ pc' = "trend_main_done"
    /\ UNCHANGED <<trendVars, gateVars, buildVars, statusVars>>

\* weekly_work_summary.py runs list_open_bugs.py: a connect and a search
ListOpenBugs ==
    /\ pc = "trend_main_done"
    /\ script = "summary"
    /\ \/ jira_ops' = jira_ops \cup {JiraConnect}
       \/ jira_ops' = jira_ops \cup {JiraConnect, JiraSearchIssues}
    /\ pc' = "trend_exit"
    /\ UNCHANGED <<script, all_issues, end_date, current_date, historical>>
    /\ UNCHANGED <<gateVars, buildVars, statusVars>>

TrendNext ==
    \/ ConnectToJira
    \/ SearchBugs
    \/ SearchSubExecutions
    \/ TrendWeek
    \/ TrendLoopEnd
    \/ SearchDetails
    \/ WriteReport
    \/ HandleError
    \/ ListOpenBugs

TrendSpec == TrendInit /\ [][TrendNext]_vars

(***************************************************************************)
(* Properties.                                                             *)
(***************************************************************************)
\* gate k has been evaluated and its verdict appended
Evaluated(k) == Len(gates_status) >= k

\* v is a number strictly above t hundredths of a percent
StrictlyAbove(v, t) == v # NaN /\ v > t

\* C1: every Gate 1 row, and Gate 5, passes if and only if both its coverage
\* and its pass ratio are strictly above 90.00; exactly 90.00 does not pass.
C1_Gate15StrictThreshold ==
    /\ Evaluated(1) =>
         /\ Len(gate1_details) = Len(df_platform_type)
         /\ \A i \in 1..Len(df_platform_type) :
              gate1_details[i].passed =
                 (/\ StrictlyAbove(df_platform_type[i].coverage_percent, 9000)
                  /\ StrictlyAbove(df_platform_type[i].pass_ratio, 9000))
    /\ Evaluated(5) =>
         gate5_passed = (/\ StrictlyAbove(overall_coverage, 9000)
                         /\ StrictlyAbove(overall_pass_ratio, 9000))

\* a Gate 1 row at exactly 90.00 coverage and overall coverage at exactly
\* 90.00, both with a pass ratio above 90, and neither passes
C1_Witness ==
    /\ Evaluated(5)
    /\ \E i \in 1..Len(df_platform_type) :
         /\ df_platform_type[i].coverage_percent = 9000
         /\ df_platform_type[i].pass_ratio > 9000
         /\ ~gate1_details[i].passed
    /\ overall_coverage = 9000
    /\ overall_pass_ratio > 9000
    /\ ~gate5_passed

\* C2: a completed evaluation holds exactly the five verdicts Gate 1 .. Gate 5
\* in this order, and the release is ready if and only if all five passed.
C2_FiveVerdictsAndOverall ==
    pc \in {"report", "done"} =>
        /\ Len(gates_status) = 5
        /\ \A i \in 1..5 :
             gates_status[i].gate =
                 <<"Gate 1", "Gate 2", "Gate 3", "Gate 4", "Gate 5">>[i]
        /\ gates_status[1].passed = gate1_passed
        /\ gates_status[2].passed = gate2_passed
        /\ gates_status[3].passed = gate3_passed
        /\ gates_status[4].passed = gate4_passed
        /\ gates_status[5].passed = gate5_passed
        /\ overall_passed = (/\ gate1_passed /\ gate2_passed /\ gate3_passed
                             /\ gate4_passed /\ gate5_passed)

\* a finished run in which Gate 3 alone fails and the release is not ready
C2_Witness ==
    /\ pc = "done"
    /\ gate1_passed /\ gate2_passed /\ ~gate3_passed
    /\ gate4_passed /\ gate5_passed
    /\ ~overall_passed

\* C3: Gate 4 never passes while some execution is completed but not accepted.
C3_CompletedNotAcceptedBlocks ==
    (Evaluated(4) /\ sub_test_completed - sub_test_accepted > 0) => ~gate4_passed

\* 21 executions, 20 accepted and one more completed: the gap is below 5%
\* and the gate is still not passed
C3_Witness ==
    /\ Evaluated(4)
    /\ sub_test_completed - sub_test_accepted > 0
    /\ (sub_test_total - sub_test_accepted) * 100 < 5 * sub_test_total
    /\ ~gate4_passed
    /\ gate4_result = "NOT READY"

\* C4: fully_passed if and only if total > 0 and accepted = total.
C4_FullyPassed ==
    Evaluated(4) =>
        gate4_fully_passed = (sub_test_total > 0 /\ sub_test_accepted = sub_test_total)

\* ten executions, all accepted
C4_Witness ==
    /\ Evaluated(4)
    /\ sub_test_total = 10
    /\ sub_test_accepted = 10
    /\ gate4_fully_passed

\* C5: pending_ok if and only if not fully_passed, the gap is strictly below
\* 5% (0 for an empty release) and nothing is completed but unaccepted;
\* gate4_passed is fully_passed or pending_ok, and the two exclude each other.
C5_PendingOk ==
    Evaluated(4) =>
        LET gapBelow5 == IF sub_test_total > 0
                         THEN (sub_test_total - sub_test_accepted) * 100
                                  < 5 * sub_test_total
                         ELSE TRUE
        IN  /\ gate4_pending_ok =
                 (/\ ~gate4_fully_passed
                  /\ gapBelow5
                  /\ sub_test_completed - sub_test_accepted = 0)
            /\ gate4_passed = (gate4_fully_passed \/ gate4_pending_ok)
            /\ ~(gate4_fully_passed /\ gate4_pending_ok)

\* 21 executions, 20 accepted, the last one not completed: a gap of 4.76%
C5_Witness ==
    /\ Evaluated(4)
    /\ sub_test_total = 21
    /\ sub_test_accepted = 20
    /\ sub_test_completed = 20
    /\ gate4_pending_ok
    /\ gate4_passed

\* C6: with no sub test execution the gap is 0 without a division,
\* completed_not_accepted is 0, fully_passed is False, pending_ok is True
\* and Gate 4 is passed.
C6_EmptyReleasePasses ==
    (Evaluated(4) /\ sub_test_total = 0) =>
        /\ gap_percentage.den # 0
        /\ gap_percentage.num = 0
        /\ completed_not_accepted = 0
        /\ ~gate4_fully_passed
        /\ gate4_pending_ok
        /\ gate4_passed

\* Jira answered the search and every execution it returned was in Trash
C6_Witness ==
    /\ Evaluated(4)
    /\ jira
    /\ sub_test_total = 0
    /\ gate4_passed
    /\ gate4_result = "READY (pending completion)"

\* C7: Gate 3 passes if and only if total_open is 0, whatever on_dev and
\* on_qa are.
C7_Gate3OnlyTotalOpen ==
    Evaluated(3) => gate3_passed = (total_open_bugs = 0)

\* bugs on dev were counted, the total open count is 0, and Gate 3 passed
C7_Witness ==
    /\ Evaluated(3)
    /\ bugs_on_dev > 0
    /\ total_open_bugs = 0
    /\ gate3_passed

\* C8: a Gate 2 row passes if and only if its coverage is strictly above
\* 50.00, and its gap is max(0, 50 - coverage), never negative.
C8_Gate2StrictThreshold ==
    Evaluated(2) =>
        /\ Len(gate2_details) = Len(df_platform)
        /\ \A i \in 1..Len(df_platform) :
             LET coverage == df_platform[i].coverage_percent
             IN  /\ gate2_details[i].passed = StrictlyAbove(coverage, 5000)
                 /\ gate2_details[i].gap =
                      (IF 5000 - coverage > 0 THEN 5000 - coverage ELSE 0)
                 /\ gate2_details[i].gap >= 0

\* a platform above 100% next to one at exactly 50.00, which fails with gap 0
C8_Witness ==
    /\ Evaluated(2)
    /\ Len(df_platform) = 2
    /\ df_platform[1].coverage_percent = 12000
    /\ gate2_details[1].passed
    /\ gate2_details[1].gap = 0
    /\ df_platform[2].coverage_percent = 5000
    /\ ~gate2_details[2].passed
    /\ gate2_details[2].gap = 0

\* C9: Gate 1 (Gate 2) passes if and only if every one of its rows passes;
\* with no rows the gate is evaluated and passes.
C9_GatePassesIffAllRows ==
    /\ Evaluated(1) =>
         /\ gate1_passed = (\A i \in 1..Len(gate1_details) : gate1_details[i].passed)
         /\ gates_status[1].passed = gate1_passed
         /\ (df_platform_type = <<>> => gate1_passed)
    /\ Evaluated(2) =>
         /\ gate2_passed = (\A i \in 1..Len(gate2_details) : gate2_details[i].passed)
         /\ gates_status[2].passed = gate2_passed
         /\ (df_platform = <<>> => gate2_passed)

\* both queries returned no row and both gates were evaluated as passed
C9_Witness ==
    /\ Evaluated(2)
    /\ df_platform_type = <<>>
    /\ df_platform = <<>>
    /\ gate1_passed
    /\ gate2_passed

\* C10: the reason of a Gate 1 row names both metrics when both fail, else
\* the one that fails, and is empty exactly when the row passed.
C10_Gate1Reason ==
    Evaluated(1) =>
        \A i \in 1..Len(gate1_details) :
            LET coverageFails ==
                    ~StrictlyAbove(df_platform_type[i].coverage_percent, 9000)
                passRatioFails ==
                    ~StrictlyAbove(df_platform_type[i].pass_ratio, 9000)
                reason == gate1_details[i].reason
            IN  /\ (coverageFails /\ passRatioFails) =>
                      reason = " (Coverage & Pass Ratio below 90%)"
                /\ (coverageFails /\ ~passRatioFails) =>
                      reason = " (Coverage below 90%)"
                /\ (~coverageFails /\ passRatioFails) =>
                      reason = " (Pass Ratio below 90%)"
                /\ (reason = "") = gate1_details[i].passed

\* coverage 40.00 with pass ratio 87.50 is reported with the combined
\* reason, next to a row that fails on the pass ratio alone
C10_Witness ==
    /\ Evaluated(1)
    /\ Len(gate1_details) = 2
    /\ gate1_details[1].coverage = 4000
    /\ gate1_details[1].pass_ratio = 8750
    /\ gate1_details[1].reason = " (Coverage & Pass Ratio below 90%)"
    /\ gate1_details[2].reason = " (Pass Ratio below 90%)"

\* C11: there is no partial-success mode: gate verdicts are produced only by
\* a run in which no error occurred while the inputs were obtained (the
\* Jira connection, the execution rate and overall queries, the bug and the
\* sub test execution searches).
C11_NoPartialSuccess ==
    Evaluated(1) => warnings = {}

\* C12: malformed input is rejected before any gate is evaluated.  The one
\* malformed input the script can meet is a fetched execution without a
\* field the counting loop reads: the except clause has printed its warning
\* after at least one execution was counted.  No gate verdict follows it.
C12_MalformedInputRejected ==
    ("sub_test_executions" \in warnings /\ sub_test_total > 0)
        => ~Evaluated(1)

C14_TestsNeededIsFloor ==
    Evaluated(1) =>
        \A i \in 1..Len(gate1_details) :
            LET row == df_platform_type[i]
                coverage_gap == IF row.coverage_percent < 9000
                                THEN 9000 - row.coverage_percent ELSE 0
            IN  /\ gate1_details[i].gap = coverage_gap
                /\ gate1_details[i].tests_needed =
                     (coverage_gap * row.available_tests) \div 10000

\* C15: for a fixed available_tests, tests_needed does not decrease as the
\* coverage decreases: of two Gate 1 rows with the same available_tests, the
\* one with the lower (or equal) coverage needs at least as many tests.
C15_TestsNeededMonotone ==
    Evaluated(1) =>
        \A i, j \in 1..Len(gate1_details) :
            (/\ df_platform_type[i].available_tests =
                  df_platform_type[j].available_tests
             /\ df_platform_type[i].coverage_percent <=
                  df_platform_type[j].coverage_percent)
            => gate1_details[i].tests_needed >= gate1_details[j].tests_needed

\* coverage 40.00 and 49.99 of the same 10000 tests: the lower coverage
\* needs strictly more tests, also where the double product is truncated
C15_Witness ==
    /\ Evaluated(1)
    /\ Len(gate1_details) = 2
    /\ df_platform_type[1].coverage_percent = 4000
    /\ df_platform_type[2].coverage_percent = 4999
    /\ df_platform_type[1].available_tests = df_platform_type[2].available_tests
    /\ gate1_details[1].tests_needed = 5000
    /\ gate1_details[2].tests_needed = 4000

\* the Gate 5 section of the report computed the coverage remediation
Gate5Remediated ==
    pc = "done" /\ ~gate5_passed /\ ~gate5_details.coverage_passed

\* the time estimate the rule gives for n tests at rate tph
HoursByRule(n, tph) ==
    IF tph > 0 THEN [num |-> n, den |-> tph] ELSE [num |-> 0, den |-> 1]

\* C16: hours_needed is tests_needed / tests_per_hour when tests_per_hour
\* is positive and 0 otherwise, for every Gate 1 row and for the Gate 5
\* remediation, and no estimate has a zero or negative divisor.
C16_HoursNeededRule ==
    /\ Evaluated(1) =>
          \A i \in 1..Len(gate1_details) :
              /\ gate1_details[i].hours_needed =
                   HoursByRule(gate1_details[i].tests_needed, tests_per_hour)
              /\ gate1_details[i].hours_needed.den > 0
    /\ Gate5Remediated =>
          /\ hours_needed_coverage =
               HoursByRule(tests_needed_coverage, tests_per_hour)
          /\ hours_needed_coverage.den > 0

\* at a measured rate of 50 tests per hour, the 5000 tests missing in a
\* group and overall are both estimated at 5000 / 50 hours
C16_Witness ==
    /\ Gate5Remediated
    /\ tests_per_hour = 50
    /\ Len(gate1_details) = 1
    /\ gate1_details[1].tests_needed = 5000
    /\ gate1_details[1].hours_needed = [num |-> 5000, den |-> 50]
    /\ tests_needed_coverage = 5000
    /\ hours_needed_coverage = [num |-> 5000, den |-> 50]

\* execution rates another run over the same data could have measured
OtherRates == {50, DefaultTestsPerHour, 250}

\* a Gate 1 detail without its time estimate
WithoutHours(d) == [f \in (DOMAIN d) \ {"hours_needed"} |-> d[f]]

\* C17: tests_per_hour influences only the time estimates.  Whatever rate
\* the run measured, every Gate 1 row has the passed value, reasons, gap
\* and tests_needed that the same row gets under any other rate, Gate 1 has
\* the same verdict, and so have the gate list and the overall readiness.
\* The rows are compared when Gate 1 has just been evaluated and again in
\* the finished run; the verdicts that follow from them in every state.
C17_RateOnlyAffectsHours ==
    Evaluated(1) =>
        /\ gates_status[1].passed = gate1_passed
        /\ pc \in {"report", "done"} =>
               overall_passed = (/\ gate1_passed /\ gate2_passed /\ gate3_passed
                                 /\ gate4_passed /\ gate5_passed)
        /\ pc \in {"gate2", "done"} =>
               \A t \in OtherRates :
                   LET other == [i \in 1..Len(df_platform_type) |->
                                   Gate1Detail(df_platform_type[i], t)]
                   IN  /\ Len(gate1_details) = Len(other)
                       /\ \A i \in 1..Len(gate1_details) :
                              WithoutHours(gate1_details[i]) = WithoutHours(other[i])
                       /\ gate1_passed = AllRowsPassed(other, TRUE)

\* a finished run at 50 tests per hour: the failing row needs the 5000 tests
\* it would need at 250 per hour, only its time estimate differs
C17_Witness ==
    /\ pc = "done"
    /\ tests_per_hour = 50
    /\ Len(gate1_details) = 1
    /\ ~gate1_details[1].passed
    /\ gate1_details[1].tests_needed = 5000
    /\ gate1_details[1].hours_needed = [num |-> 5000, den |-> 50]
    /\ Gate1Detail(df_platform_type[1], 250).hours_needed
          = [num |-> 5000, den |-> 250]
    /\ ~overall_passed

\* C19: the counters fed to Gate 4 satisfy accepted <= completed <= total
\* and completed + in_progress + not_started = total at every point of the
\* run, so after every iteration of the counting loop and at Gate 4 however
\* the loop ended; an iteration over an execution in Trash changes none of
\* the five counters.
C19_CountersConsistent ==
    /\ [](/\ sub_test_accepted <= sub_test_completed
          /\ sub_test_completed <= sub_test_total
          /\ sub_test_completed + sub_test_in_progress + sub_test_not_started
                = sub_test_total)
    /\ [][(/\ pc = "count_executions"
           /\ pc' = "count_executions"
           /\ status' = "trash") => UNCHANGED subVars]_vars

\* the loop was cut short by an exception right after an execution in
\* Trash, with three executions counted: two completed, one of them
\* accepted, and one in progress
C19_Witness ==
    /\ pc = "gate1"
    /\ "sub_test_executions" \in warnings
    /\ status = "trash"
    /\ sub_test_total = 3
    /\ sub_test_completed = 2
    /\ sub_test_accepted = 1
    /\ sub_test_in_progress = 1
    /\ sub_test_not_started = 0

\* the Gate 1 detail of a row carrying the overall metrics
OverallAsGate1Row ==
    Gate1Detail([platform_type |-> "Overall", mode |-> "All",
                 tests_executed |-> overall_tests_executed,
                 available_tests |-> overall_available_tests,
                 coverage_percent |-> overall_coverage,
                 tests_passed |-> overall_tests_passed,
                 pass_ratio |-> overall_pass_ratio],
                tests_per_hour)

\* the Gate 5 remediation agrees with what Gate 1 computes for such a row
Gate5AsGate1 ==
    Gate5Remediated =>
        /\ gate5_details.coverage_gap = OverallAsGate1Row.gap
        /\ tests_needed_coverage = OverallAsGate1Row.tests_needed
        /\ hours_needed_coverage = OverallAsGate1Row.hours_needed

\* C20: the Gate 5 remediation follows the rule of Gate 1: for the same
\* coverage, available_tests and tests_per_hour it reports the coverage gap,
\* the tests_needed = floor(gap / 100 * available_tests) and the
\* hours_needed that a Gate 1 row would.
C20_Gate5RemediationAsGate1 ==
    /\ Gate5AsGate1
    /\ Gate5Remediated =>
          tests_needed_coverage =
              (gate5_details.coverage_gap * gate5_details.available_tests)
                  \div 10000

\* C21: a coverage above 100% is evaluated like any other: its coverage
\* check passes with gap 0 and tests_needed 0.  No gap, pass ratio gap or
\* tests_needed is negative, and a Gate 1 row with coverage of 90 or more
\* has tests_needed 0 and hours_needed 0.
C21_GapsNeverNegative ==
    /\ Evaluated(1) =>
          \A i \in 1..Len(gate1_details) :
              LET d == gate1_details[i]
              IN  /\ d.gap >= 0 /\ d.pass_ratio_gap >= 0 /\ d.tests_needed >= 0
                  /\ df_platform_type[i].coverage_percent >= 9000 =>
                        /\ d.gap = 0
                        /\ d.tests_needed = 0
                        /\ d.hours_needed.num = 0
                  /\ df_platform_type[i].coverage_percent > 10000 =>
                        d.coverage_passed
    /\ Evaluated(2) =>
          \A i \in 1..Len(gate2_details) :
              /\ gate2_details[i].gap >= 0
              /\ df_platform[i].coverage_percent > 10000 =>
                    gate2_details[i].passed /\ gate2_details[i].gap = 0
    /\ Evaluated(5) =>
          gate5_details.coverage_gap >= 0 /\ gate5_details.pass_ratio_gap >= 0

\* a group with 12000 tests executed out of 10000 available went through the
\* whole run: its coverage check passed and nothing is left to execute
C21_Witness ==
    /\ pc = "done"
    /\ Len(gate1_details) >= 1
    /\ df_platform_type[1].tests_executed > df_platform_type[1].available_tests
    /\ gate1_details[1].coverage = 12000
    /\ gate1_details[1].coverage_passed
    /\ gate1_details[1].gap = 0
    /\ gate1_details[1].tests_needed = 0

\* the script is past the bug searches / past the sub test execution search
PastBugQueries ==
    pc \in {"query_sub_tests", "count_executions", "gate1", "gate2", "gate3",
            "gate4", "gate5", "overall", "report", "done"}
PastSubTestSearch ==
    pc \in {"gate1", "gate2", "gate3", "gate4", "gate5", "overall", "report",
            "done"}

\* C26: when Jira is unavailable the counts keep their initial 0 and Gates 3
\* and 4 pass.  Without a Jira client all bug counts and sub test counters
\* are 0; when a bug search raised, the total of open bugs is 0; when the
\* sub test search raised before anything was counted, the counters are 0.
\* Gate 3, respectively Gate 4, is then evaluated as passed, and the Jira
\* failure does not end the run.
C26_JiraUnavailablePasses ==
    /\ (PastBugQueries /\ ~jira) =>
          bugs_on_dev = 0 /\ bugs_on_qa = 0 /\ total_open_bugs = 0
    /\ (PastBugQueries /\ "bugs" \in warnings) => total_open_bugs = 0
    /\ (PastSubTestSearch /\ ~jira) =>
          /\ sub_test_total = 0 /\ sub_test_completed = 0
          /\ sub_test_accepted = 0 /\ sub_test_in_progress = 0
          /\ sub_test_not_started = 0
    /\ (Evaluated(3) /\ (~jira \/ "bugs" \in warnings)) => gate3_passed
    /\ (Evaluated(4)
          /\ (~jira \/ ("sub_test_executions" \in warnings /\ sub_test_total = 0)))
          => gate4_passed
    /\ pc \in {"exit", "crashed"} =>
          warnings \subseteq {"jira_connection"}

\* the searches for QA and for open bugs and the sub test search all failed
\* after one bug on dev was counted: the run finished with Gates 3 and 4
\* passed on zeros
C26_Witness ==
    /\ pc = "done"
    /\ jira
    /\ "bugs" \in warnings
    /\ bugs_on_dev = 1
    /\ total_open_bugs = 0
    /\ gate3_passed
    /\ "sub_test_executions" \in warnings
    /\ sub_test_total = 0
    /\ gate4_passed

\* the script is past the overall query
PastOverallQuery == PastBugQueries \/ pc = "query_bugs"

\* the overall query failed or gave no row: its warning was printed, or no
\* available test was read (a row always has some, a zero total is a
\* division error of the query)
NoOverallResult ==
    PastOverallQuery
        /\ ("overall_metrics" \in warnings \/ overall_available_tests = 0)

\* C27: if the overall query fails or returns no row, overall_coverage and
\* overall_pass_ratio are 0, Gate 5 is evaluated as not passed and the
\* overall release status is not ready.
C27_FailedOverallFailsGate5 ==
    NoOverallResult =>
        /\ overall_coverage = 0
        /\ overall_pass_ratio = 0
        /\ Evaluated(5) =>
              /\ ~gate5_passed
              /\ ~gates_status[5].passed
              /\ gate5_details.coverage = 0 /\ gate5_details.pass_ratio = 0
        /\ pc \in {"report", "done"} => ~overall_passed

\* the overall query failed in a run whose other four gates passed: Gate 5
\* alone keeps the release from being ready
C27_Witness ==
    /\ pc = "done"
    /\ "overall_metrics" \in warnings
    /\ gate1_passed /\ gate2_passed /\ gate3_passed /\ gate4_passed
    /\ ~gate5_passed
    /\ ~overall_passed

\* gap_percentage >= 5.0
GapAtLeastFive == gap_percentage.num >= 5 * gap_percentage.den

\* C28: the printed Gate 4 result is one of READY (fully passed), READY
\* pending completion (pending ok), NOT READY (completed but unaccepted
\* executions) and PENDING; PENDING is printed only with a gap of at least
\* 5% and no completed but unaccepted execution, and Gate 4 passed exactly
\* for the two READY results.  The report shows the same READY results.
C28_Gate4Outcomes ==
    Evaluated(4) =>
        /\ gate4_result \in {"READY", "READY (pending completion)",
                             "NOT READY", "PENDING"}
        /\ (gate4_result = "READY") = gate4_fully_passed
        /\ (gate4_result = "READY (pending completion)") = gate4_pending_ok
        /\ (gate4_result = "NOT READY") =
              (~gate4_passed /\ completed_not_accepted > 0)
        /\ gate4_result = "PENDING" =>
              GapAtLeastFive /\ completed_not_accepted = 0
        /\ gate4_passed =
              (gate4_result \in {"READY", "READY (pending completion)"})
        /\ pc = "done" =>
              /\ gate4_passed => gate4_report_status = gate4_result
              /\ ~gate4_passed => gate4_report_status = "NOT READY"

\* one execution waits in "to do": the gap is 100%, nothing is completed,
\* and the finished run printed PENDING
C28_Witness ==
    /\ pc = "done"
    /\ gate4_result = "PENDING"
    /\ sub_test_total = 1
    /\ sub_test_not_started = 1
    /\ completed_not_accepted = 0
    /\ GapAtLeastFive
    /\ ~gate4_passed

\* C29: for every failing Gate 1 row, the number of tests to execute shown
\* in the overall summary equals the tests_needed of the row shown in the
\* Gate 1 "Actions Required" section, the floor of gap / 100 *
\* available_tests.
C29_SummaryShowsTestsNeeded ==
    pc = "done" =>
        \A i \in 1..Len(gate1_summary) :
            gate1_summary[i].listed =>
                /\ gate1_summary[i].tests = gate1_actions[i].tests
                /\ gate1_summary[i].tests =
                     (gate1_details[i].gap * gate1_details[i].available_tests)
                         \div 10000


\* the answer has been parsed
BuildsParsed == pc # "parse_builds"

\* s without its blanks
RemoveSpaces(s) == SelectSeq(s, LAMBDA c : c # " ")

\* ','.join(list)
RECURSIVE JoinComma(_)
JoinComma(list) ==
    IF list = <<>> THEN <<>>
    ELSE IF Len(list) = 1 THEN list[1]
    ELSE list[1] \o <<",">> \o JoinComma(Tail(list))

\* the answer is a range 'A-B' of two integers
IsIntRange(s) ==
    /\ Contains(s, "-")
    /\ ~Contains(s, ",")
    /\ Len(Split(s, "-")) = 2
    /\ ParsesAsInt(Split(s, "-")[1])
    /\ ParsesAsInt(Split(s, "-")[2])

\* what the claim says of every answer but the "never empty" part
C25_ParsingRules ==
    BuildsParsed =>
        /\ builds_input = <<>> => builds = DefaultBuilds
        /\ IsIntRange(builds_input) =>
              LET A == IntOf(Split(builds_input, "-")[1])
                  B == IntOf(Split(builds_input, "-")[2])
              IN  /\ Len(builds) = (IF B >= A THEN B - A + 1 ELSE 0)
                  /\ \A k \in 1..Len(builds) : IntOf(builds[k]) = A + k - 1
                  /\ \A k \in 1..Len(builds) : builds[k] = Str(IntOf(builds[k]))
        /\ Contains(builds_input, ",") =>
              /\ \A k \in 1..Len(builds) : builds[k] = Strip(builds[k])
              /\ \A k \in 1..Len(builds) : ~Contains(builds[k], ",")
              /\ RemoveSpaces(JoinComma(builds)) = RemoveSpaces(builds_input)
        /\ (/\ Contains(builds_input, "-")
            /\ ~Contains(builds_input, ",")
            /\ ~IsIntRange(builds_input)) => builds = <<builds_input>>

\* C25: a range 'A-B' yields the builds A..B in ascending order, a comma
\* separated answer yields the listed builds in input order, an empty
\* answer yields the default list, a range that is not two integers falls
\* back to comma splitting, and the resulting build list is never empty.
C25_BuildParsing ==
    /\ C25_ParsingRules
    /\ BuildsParsed => builds # <<>>

\* a reversed range such as '2-1' has been parsed
C25_ReversedRange ==
    /\ BuildsParsed
    /\ IsIntRange(builds_input)
    /\ IntOf(Split(builds_input, "-")[2]) < IntOf(Split(builds_input, "-")[1])


\* get_bug_status_at_date has returned
StatusReturned == pc = "status_returned"

\* the status changes of the issue dated on or before target_date
RelevantChanges ==
    { k \in 1..Len(issue.histories) :
        /\ issue.histories[k].field = "status"
        /\ DateOf(issue.histories[k].created) <= target_date }

\* the relevant changes that no other relevant change is later than
LastChanges ==
    { k \in RelevantChanges :
        \A j \in RelevantChanges :
            issue.histories[j].created <= issue.histories[k].created }

\* C23: a bug whose status at the target date is Accepted or Closed is
\* counted in the closed category (get_bug_status_at_date returns 'closed'),
\* not in dev or qa.
C23_AcceptedOrClosedIsClosed ==
    (/\ StatusReturned
     /\ issue.created <= target_date
     /\ status_at_date \in {Accepted, Closed}) => category = "closed"

ReleaseStart == EarliestDate(all_issues, end_date)

\* the series has been started
SeriesStarted ==
    pc \in {"trend_loop", "summary_sub_search", "summary_detail_search",
            "trend_report"}

\* the while loop has ended
SeriesComplete == pc \in {"summary_detail_search", "trend_report"}

\* C30: the data points run from the release start date in steps of 7 days
\* up to today (at least one point when the start is not in the future); at
\* every point dev + qa + closed = total, total is the number of bugs
\* created on or before that date, and total never decreases from one
\* weekly point to the next.
C30_WeeklySeries ==
    /\ SeriesStarted =>
          \A k \in 1..Len(historical) :
              /\ historical[k].date = ReleaseStart + 7 * (k - 1)
              /\ historical[k].date <= end_date
              /\ historical[k].dev + historical[k].qa + historical[k].closed
                     = historical[k].total
              /\ historical[k].total
                     = Cardinality({i \in 1..Len(all_issues) :
                                       all_issues[i].created <= historical[k].date})
              /\ k > 1 => historical[k - 1].total <= historical[k].total
    /\ SeriesComplete =>
          /\ ReleaseStart + 7 * Len(historical) > end_date
          /\ ReleaseStart <= end_date => Len(historical) >= 1

\* a complete series of two points whose total grows, with a bug that was
\* not yet created at the first point, and whose last point is before today
C30_Witness ==
    /\ SeriesComplete
    /\ Len(historical) >= 2
    /\ historical[1].total >= 1
    /\ historical[1].total < historical[2].total
    /\ historical[Len(historical)].date < end_date
    /\ historical[2].closed >= 1
    /\ historical[2].qa >= 1

\* C22: the weekly work summary and the weekly bug trend report only read
\* from Jira: on every path, the error path included, the only operations
\* issued are the connection and searches; nothing is created, updated,
\* commented on or transitioned.
C22_JiraReadOnly == jira_ops \subseteq {"connect", "search_issues"}

\* a search was issued and then a later call raised: the error path
C22_Witness ==
    /\ pc = "trend_error"
    /\ "search_issues" \in jira_ops
    /\ all_issues # <<>>

====
